---- MODULE Spec2Model ----
(***************************************************************************)
(* font_family_util: the GDI <-> DirectWrite family-name tables of         *)
(* src/core/utils/font_family_util/font_family_util.cpp.                   *)
(*                                                                         *)
(* Wide strings are sequences of UTF-16 code units, narrow strings are     *)
(* sequences of UTF-8 bytes.  The DirectWrite calls are the environment:   *)
(* every family handed to the loop of init() is drawn from FamilyInputs,   *)
(* which fixes the one platform call that fails (if any), the outcome of   *)
(* GetUserDefaultLocaleName, the family's localized-name table and the     *)
(* lfFaceName the GDI interop writes.                                      *)
(***************************************************************************)
EXTENDS Integers, Sequences, FiniteSets, TLC

\* ------------------------------------------------------------------ bounds
\* Most families one font collection reports (GetFontFamilyCount).
MaxFamilies == 2
\* Most calls of init() in one process.
MaxInits == 2

\* ------------------------------------------------------------ wide strings
\* "Arial"
WArial == <<65, 114, 105, 97, 108>>
\* "Arial Black"
WArialBlack == <<65, 114, 105, 97, 108, 32, 66, 108, 97, 99, 107>>
\* e-acute, U+4E2D, U+1F600 as a surrogate pair: 2-, 3- and 4-byte UTF-8
WMixed == <<233, 20013, 55357, 56832>>
\* a high surrogate followed by a code unit that is no low surrogate
WBad == <<55357, 65>>

\* The names a family's localized-name table can hold.
FamilyNameStrings == {WArial, WArialBlack, WBad}
\* The face names ConvertFontToLOGFONT can write to lf.lfFaceName.
FaceNames == {WArial, WMixed, WBad}

IsHighSurrogate(c) == 55296 <= c /\ c < 56320
IsLowSurrogate(c) == 56320 <= c /\ c < 57344

\* Whether codecvt_utf8_utf16 converts w without error: every surrogate is
\* half of a high/low pair.
RECURSIVE WellFormed(_)
WellFormed(w) ==
    IF w = <<>> THEN TRUE
    ELSE IF IsHighSurrogate(Head(w))
         THEN Len(w) >= 2 /\ IsLowSurrogate(w[2]) /\ WellFormed(Tail(Tail(w)))
         ELSE ~IsLowSurrogate(Head(w)) /\ WellFormed(Tail(w))

\* The UTF-8 bytes of one code point.
Utf8OfCodePoint(cp) ==
    IF cp < 128 THEN <<cp>>
    ELSE IF cp < 2048 THEN <<192 + (cp \div 64), 128 + (cp % 64)>>
    ELSE IF cp < 65536
         THEN <<224 + (cp \div 4096), 128 + ((cp \div 64) % 64), 128 + (cp % 64)>>
         ELSE <<240 + (cp \div 262144), 128 + ((cp \div 4096) % 64),
                128 + ((cp \div 64) % 64), 128 + (cp % 64)>>

\* wstring_convert<codecvt_utf8_utf16<wchar_t>>::to_bytes on a well-formed
\* wide string.
RECURSIVE to_bytes(_)
to_bytes(w) ==
    IF w = <<>> THEN <<>>
    ELSE IF IsHighSurrogate(Head(w))
         THEN Utf8OfCodePoint(65536 + (Head(w) - 55296) * 1024 + (w[2] - 56320))
                  \o to_bytes(Tail(Tail(w)))
         ELSE Utf8OfCodePoint(Head(w)) \o to_bytes(Tail(w))

\* The keys and values the two tables can hold.
GdiNames == {to_bytes(w) : w \in {x \in FaceNames : WellFormed(x)}}
DirectWriteNames == {to_bytes(w) : w \in {x \in FamilyNameStrings : WellFormed(x)}}
\* The strings callers look up.
LookupKeys == GdiNames \cup DirectWriteNames

\* ------------------------------------------------------------- environment
\* The locale GetUserDefaultLocaleName reports when it succeeds.
UserLocale == "ko-kr"
\* The tag the code substitutes when it fails.
FallbackLocale == "en_us"
Locales == {UserLocale, FallbackLocale}

\* An IDWriteLocalizedStrings table: one (locale, string) pair per locale.
LocalizedStrings ==
    {<<>>}
    \cup {<<[locale |-> l, name |-> n]>> : l \in Locales, n \in FamilyNameStrings}
    \cup {<<[locale |-> l1, name |-> n1], [locale |-> l2, name |-> n2]>> :
              <<l1, l2, n1, n2>> \in {t \in Locales \X Locales \X FamilyNameStrings
                                             \X FamilyNameStrings : t[1] # t[2]}}

\* The platform calls made for one family, in the order the code makes them.
FamilyCalls == <<"GetFontFamily", "GetFamilyNames", "FindLocaleName",
                 "GetStringLength", "new", "GetString",
                 "GetFirstMatchingFont", "GetGdiInterop", "ConvertFontToLOGFONT">>
Range(s) == {s[j] : j \in 1..Len(s)}

\* One family as the platform presents it: the call that fails ("none" when
\* every HRESULT succeeds; the calls after a failing one are never made),
\* whether GetUserDefaultLocaleName succeeds, the family's names, and the
\* face name of its representative font.
FamilyInputs ==
    [fail : Range(FamilyCalls) \cup {"none"},
     locale_ok : BOOLEAN,
     names : LocalizedStrings,
     lfFaceName : FaceNames]

\* UINT_MAX, the UINT32 with every bit set, written as the signed integer of
\* the same bit pattern; IndexInTable compares it as unsigned.
UINT_MAX == 0 - 1

\* IDWriteLocalizedStrings::FindLocaleName: the zero-based index of the pair
\* of that locale; when there is none the call still succeeds, with
\* *index = UINT_MAX and *exists = FALSE.
FindLocaleName(names, locale_name) ==
    LET hits == {j \in 1..Len(names) : names[j].locale = locale_name}
    IN  IF hits = {}
        THEN [index |-> UINT_MAX, exists |-> FALSE]
        ELSE [index |-> (CHOOSE j \in hits : \A k \in hits : j <= k) - 1,
              exists |-> TRUE]

\* IDWriteLocalizedStrings::GetStringLength / GetString succeed only for an
\* index inside the table.
IndexInTable(names, index) == 0 <= index /\ index < Len(names)

\* --------------------------------------------------------------- the state
VARIABLES
    gdi_to_directwrite,      \* the table keyed by GDI (legacy) family name
    directwrite_to_gdi,      \* the table keyed by DirectWrite (modern) family name
    pc,                      \* "idle", "loop" (inside init's for loop), "terminated"
    i,                       \* the loop index of init()
    family_count,            \* GetFontFamilyCount() of the running init()
    ret,                     \* what the last init() returned: "true", "false", "none"
    calls,                   \* how many times init() was called
    held,                    \* kinds of COM reference acquired and not released
    pre_gdi_to_directwrite,  \* gdi_to_directwrite when the last init() was entered
    pre_directwrite_to_gdi,  \* directwrite_to_gdi when the last init() was entered
    resolved,                \* per index of the last init(): <<gdi, directwrite>> or None
    last,                    \* how the last loop iteration ended
    lastop,                  \* the last exported function called, its key and result
    cleaned                  \* cleanup() was called since the last init()

vars == <<gdi_to_directwrite, directwrite_to_gdi, pc, i, family_count, ret, calls,
          held, pre_gdi_to_directwrite, pre_directwrite_to_gdi, resolved, last,
          lastop, cleaned>>

\* std::optional / a nullable pointer: None, or Some(v).
None == <<>>
Some(v) == <<v>>

\* An empty std::unordered_map.
EmptyMap == [k \in {} |-> <<>>]

\* The references one family's resolution acquires.
PerFamilyHandles == {"font_family", "family_names", "dwrite_font", "interop"}

\* No loop iteration has run yet.
NoIteration == [step |-> "-", no_match |-> FALSE, variants |-> 0]

\* ------------------------------------------------------------------ lookups
\* get_gdi_family_from_directwrite: directwrite_to_gdi.at(key), nullptr when
\* at() throws std::out_of_range.
get_gdi_family_from_directwrite(direct_write_family) ==
    IF direct_write_family \in DOMAIN directwrite_to_gdi
    THEN Some(directwrite_to_gdi[direct_write_family])
    ELSE None

\* A lookup that reads the other table.
get_directwrite_family_from_gdi_other_table(gdi_family) ==
    IF gdi_family \in DOMAIN directwrite_to_gdi
    THEN Some(directwrite_to_gdi[gdi_family])
    ELSE None

\* get_directwrite_family_from_gdi: gdi_to_directwrite.at(key), nullptr when
\* at() throws std::out_of_range.
get_directwrite_family_from_gdi(gdi_family) ==
    IF gdi_family \in DOMAIN gdi_to_directwrite
    THEN Some(gdi_to_directwrite[gdi_family])
    ELSE None

\* ------------------------------------------------------- name resolution
\* The locale tag: GetUserDefaultLocaleName, or "en_us" when it fails.
locale_name(f) == IF f.locale_ok THEN UserLocale ELSE FallbackLocale

\* An index that falls back to the first variant when the locale has none.
family_name_index_first_variant(found) ==
    IF found.exists THEN found.index ELSE 0

\* family_name_index after FindLocaleName: whatever the call wrote; is_exist
\* is never read.
family_name_index(found) == found.index

\* get_family_name_of_cur_locale.  status "value": the UTF-8 name; "nullopt":
\* an early return; "terminate": to_bytes throws inside the noexcept
\* function, outside any try block, so std::terminate ends the process.
get_family_name_of_cur_locale(f) ==
    LET found == FindLocaleName(f.names, locale_name(f))
        index == family_name_index(found)
        out(status, value, step, acquired, no_match) ==
            [status |-> status, value |-> value, step |-> step,
             acquired |-> acquired, no_match |-> no_match]
    IN  IF f.fail = "GetFamilyNames"
        THEN out("nullopt", <<>>, "GetFamilyNames", {}, FALSE)
        ELSE IF f.fail = "FindLocaleName"
        THEN out("nullopt", <<>>, "FindLocaleName", {"family_names"}, FALSE)
        ELSE IF f.fail = "GetStringLength" \/ ~IndexInTable(f.names, index)
        THEN out("nullopt", <<>>, "GetStringLength", {"family_names"}, ~found.exists)
        ELSE IF f.fail = "new"
        THEN out("nullopt", <<>>, "new", {"family_names"}, ~found.exists)
        ELSE IF f.fail = "GetString"
        THEN out("nullopt", <<>>, "GetString", {"family_names"}, ~found.exists)
        ELSE IF ~WellFormed(f.names[index + 1].name)
        THEN out("terminate", <<>>, "to_bytes(family_name)", {"family_names"},
                 ~found.exists)
        ELSE out("value", to_bytes(f.names[index + 1].name), "ok", {"family_names"},
                 ~found.exists)

\* get_gdi_and_directwrite_family_name.  status "value": the pair
\* <<gdi, directwrite>>; "nullopt"; "terminate" as above.
get_gdi_and_directwrite_family_name(f) ==
    LET r == get_family_name_of_cur_locale(f)
        out(status, value, step, acquired) ==
            [status |-> status, value |-> value, step |-> step,
             acquired |-> r.acquired \cup acquired, no_match |-> r.no_match]
    IN  IF r.status # "value"
        THEN r
        ELSE IF f.fail = "GetFirstMatchingFont"
        THEN out("nullopt", <<>>, "GetFirstMatchingFont", {})
        ELSE IF f.fail = "GetGdiInterop"
        THEN out("nullopt", <<>>, "GetGdiInterop", {"dwrite_font"})
        ELSE IF f.fail = "ConvertFontToLOGFONT"
        THEN out("nullopt", <<>>, "ConvertFontToLOGFONT", {"dwrite_font", "interop"})
        ELSE IF ~WellFormed(f.lfFaceName)
        THEN out("nullopt", <<>>, "to_bytes(lfFaceName)", {"dwrite_font", "interop"})
        ELSE out("value", <<to_bytes(f.lfFaceName), r.value>>, "ok",
                 {"dwrite_font", "interop"})

\* -------------------------------------------------------------------- init
\* std::unordered_map::operator[] assignment: insert or overwrite.
Put(m, k, v) == [x \in DOMAIN m \cup {k} |-> IF x = k THEN v ELSE m[x]]

\* A store that writes the forward table only.
StoreNamesForwardOnly(g2d, d2g, gdi_family_name, directwrite_family_name) ==
    [g2d |-> Put(g2d, gdi_family_name, directwrite_family_name), d2g |-> d2g]

\* A store that keeps the entry a key already has (insert / emplace).
StoreNamesKeepFirst(g2d, d2g, gdi_family_name, directwrite_family_name) ==
    [g2d |-> IF gdi_family_name \in DOMAIN g2d THEN g2d
             ELSE Put(g2d, gdi_family_name, directwrite_family_name),
     d2g |-> IF directwrite_family_name \in DOMAIN d2g THEN d2g
             ELSE Put(d2g, directwrite_family_name, gdi_family_name)]

\* The two assignments that end a successful loop iteration.
StoreNames(g2d, d2g, gdi_family_name, directwrite_family_name) ==
    [g2d |-> Put(g2d, gdi_family_name, directwrite_family_name),
     d2g |-> Put(d2g, directwrite_family_name, gdi_family_name)]

\* What the platform answers at the head of init(): whether
\* DWriteCreateFactory and GetSystemFontCollection succeed, and the count.
InitInputs ==
    [factory_ok : BOOLEAN, collection_ok : BOOLEAN, count : 0..MaxFamilies]

\* A head of init() that clears both tables when it fails.
InitHeadClearingOnFailure(e, g2d, d2g) ==
    IF ~e.factory_ok
    THEN [pc |-> "idle", ret |-> "false", g2d |-> EmptyMap, d2g |-> EmptyMap,
          acquired |-> {}, count |-> 0]
    ELSE IF ~e.collection_ok
    THEN [pc |-> "idle", ret |-> "false", g2d |-> EmptyMap, d2g |-> EmptyMap,
          acquired |-> {"factory"}, count |-> 0]
    ELSE [pc |-> "loop", ret |-> "none", g2d |-> g2d, d2g |-> d2g,
          acquired |-> {"factory", "font_collection"}, count |-> e.count]

\* A head of init() that rebuilds the tables from scratch.
InitHeadRebuilding(e, g2d, d2g) ==
    IF ~e.factory_ok
    THEN [pc |-> "idle", ret |-> "false", g2d |-> g2d, d2g |-> d2g,
          acquired |-> {}, count |-> 0]
    ELSE IF ~e.collection_ok
    THEN [pc |-> "idle", ret |-> "false", g2d |-> g2d, d2g |-> d2g,
          acquired |-> {"factory"}, count |-> 0]
    ELSE [pc |-> "loop", ret |-> "none", g2d |-> EmptyMap, d2g |-> EmptyMap,
          acquired |-> {"factory", "font_collection"}, count |-> e.count]

\* init() up to the for loop: the two fatal returns, else the family count.
InitHead(e, g2d, d2g) ==
    IF ~e.factory_ok
    THEN [pc |-> "idle", ret |-> "false", g2d |-> g2d, d2g |-> d2g,
          acquired |-> {}, count |-> 0]
    ELSE IF ~e.collection_ok
    THEN [pc |-> "idle", ret |-> "false", g2d |-> g2d, d2g |-> d2g,
          acquired |-> {"factory"}, count |-> 0]
    ELSE [pc |-> "loop", ret |-> "none", g2d |-> g2d, d2g |-> d2g,
          acquired |-> {"factory", "font_collection"}, count |-> e.count]

\* One iteration of the for loop on family f, up to the two assignments:
\* "value" with the pair to store, "nullopt" for a continue, "terminate".
\* variants: the size of the family's name table when the locale had none.
InitIteration(f) ==
    IF f.fail = "GetFontFamily"
    THEN [status |-> "nullopt", step |-> "GetFontFamily", entry |-> None,
          acquired |-> {}, no_match |-> FALSE, variants |-> 0]
    ELSE LET r == get_gdi_and_directwrite_family_name(f)
         IN  [status |-> r.status, step |-> r.step,
              entry |-> IF r.status = "value" THEN r.value ELSE None,
              acquired |-> {"font_family"} \cup r.acquired,
              no_match |-> r.no_match,
              variants |-> IF r.no_match THEN Len(f.names) ELSE 0]

\* Every way one iteration can end, over all families the platform can present.
IterationOutcomes == {InitIteration(f) : f \in FamilyInputs}

Init ==
    /\ gdi_to_directwrite = EmptyMap
    /\ directwrite_to_gdi = EmptyMap
    /\ pc = "idle"
    /\ i = 0
    /\ family_count = 0
    /\ ret = "none"
    /\ calls = 0
    /\ held = {}
    /\ pre_gdi_to_directwrite = EmptyMap
    /\ pre_directwrite_to_gdi = EmptyMap
    /\ resolved = <<>>
    /\ last = NoIteration
    /\ lastop = [op |-> "none", key |-> <<>>, value |-> None]
    /\ cleaned = FALSE

\* init() is called: factory, collection, family count.
InitBegin ==
    /\ pc = "idle"
    /\ calls < MaxInits
    /\ \E e \in InitInputs :
         LET h == InitHead(e, gdi_to_directwrite, directwrite_to_gdi)
         IN  /\ pc' = h.pc
             /\ ret' = h.ret
             /\ gdi_to_directwrite' = h.g2d
             /\ directwrite_to_gdi' = h.d2g
             /\ held' = held \cup h.acquired
             /\ family_count' = h.count
    /\ i' = 0
    /\ calls' = calls + 1
    /\ pre_gdi_to_directwrite' = gdi_to_directwrite
    /\ pre_directwrite_to_gdi' = directwrite_to_gdi
    /\ resolved' = <<>>
    /\ last' = NoIteration
    /\ lastop' = [op |-> "init", key |-> <<>>, value |-> None]
    /\ cleaned' = FALSE

\* The body of the for loop for index i, then i++.
InitFamily ==
    /\ pc = "loop"
    /\ i < family_count
    /\ \E r \in IterationOutcomes :
         LET t == IF r.status = "value"
                  THEN StoreNames(gdi_to_directwrite, directwrite_to_gdi,
                                  r.entry[1], r.entry[2])
                  ELSE [g2d |-> gdi_to_directwrite, d2g |-> directwrite_to_gdi]
         IN  /\ pc' = IF r.status = "terminate" THEN "terminated" ELSE "loop"
             /\ gdi_to_directwrite' = t.g2d
             /\ directwrite_to_gdi' = t.d2g
             /\ held' = held \cup r.acquired
             /\ resolved' = Append(resolved, r.entry)
             /\ last' = [step |-> r.step, no_match |-> r.no_match,
                         variants |-> r.variants]
    /\ i' = i + 1
    /\ UNCHANGED <<family_count, ret, calls, pre_gdi_to_directwrite,
                   pre_directwrite_to_gdi, lastop, cleaned>>

\* The loop condition fails: return true.
InitReturn ==
    /\ pc = "loop"
    /\ i >= family_count
    /\ pc' = "idle"
    /\ ret' = "true"
    /\ UNCHANGED <<gdi_to_directwrite, directwrite_to_gdi, i, family_count, calls,
                   held, pre_gdi_to_directwrite, pre_directwrite_to_gdi, resolved,
                   last, lastop, cleaned>>

\* ------------------------------------------------- cleanup and the lookups
\* A cleanup() that empties the tables.
CleanupClearing ==
    /\ pc = "idle"
    /\ gdi_to_directwrite' = EmptyMap
    /\ directwrite_to_gdi' = EmptyMap
    /\ lastop' = [op |-> "cleanup", key |-> <<>>, value |-> None]
    /\ cleaned' = TRUE
    /\ UNCHANGED <<pc, i, family_count, ret, calls, held, pre_gdi_to_directwrite,
                   pre_directwrite_to_gdi, resolved, last>>

\* cleanup(): an empty body.
Cleanup ==
    /\ pc = "idle"
    /\ lastop' = [op |-> "cleanup", key |-> <<>>, value |-> None]
    /\ cleaned' = TRUE
    /\ UNCHANGED <<gdi_to_directwrite, directwrite_to_gdi, pc, i, family_count, ret,
                   calls, held, pre_gdi_to_directwrite, pre_directwrite_to_gdi,
                   resolved, last>>

\* A caller looks up a DirectWrite family name.
LookupGdi ==
    /\ pc = "idle"
    /\ \E key \in LookupKeys :
         lastop' = [op |-> "get_gdi_family_from_directwrite", key |-> key,
                    value |-> get_gdi_family_from_directwrite(key)]
    /\ UNCHANGED <<gdi_to_directwrite, directwrite_to_gdi, pc, i, family_count, ret,
                   calls, held, pre_gdi_to_directwrite, pre_directwrite_to_gdi,
                   resolved, last, cleaned>>

\* A caller looks up a GDI family name.
LookupDirectWrite ==
    /\ pc = "idle"
    /\ \E key \in LookupKeys :
         lastop' = [op |-> "get_directwrite_family_from_gdi", key |-> key,
                    value |-> get_directwrite_family_from_gdi(key)]
    /\ UNCHANGED <<gdi_to_directwrite, directwrite_to_gdi, pc, i, family_count, ret,
                   calls, held, pre_gdi_to_directwrite, pre_directwrite_to_gdi,
                   resolved, last, cleaned>>

Next ==
    \/ InitBegin
    \/ InitFamily
    \/ InitReturn
    \/ Cleanup
    \/ LookupGdi
    \/ LookupDirectWrite

Spec == Init /\ [][Next]_vars

\* ------------------------------------------------------------- properties
Arial == to_bytes(WArial)
ArialBlack == to_bytes(WArialBlack)

\* The indices of the last init() whose family resolved.
Succeeded == {j \in 1..Len(resolved) : resolved[j] # None}
\* The GDI / DirectWrite name family j resolved to.
GdiOf(j) == resolved[j][1]
DirectWriteOf(j) == resolved[j][2]
\* The highest index whose family resolved with GDI name k / DirectWrite name m.
LastWithGdi(k) ==
    CHOOSE j \in Succeeded : GdiOf(j) = k
        /\ \A h \in Succeeded : GdiOf(h) = k => h <= j
LastWithDirectWrite(m) ==
    CHOOSE j \in Succeeded : DirectWriteOf(j) = m
        /\ \A h \in Succeeded : DirectWriteOf(h) = m => h <= j
WrittenGdi == {GdiOf(j) : j \in Succeeded}
WrittenDirectWrite == {DirectWriteOf(j) : j \in Succeeded}
InitReturnedTrue == pc = "idle" /\ ret = "true"

\* C1 as stated: after init() returns true, every family that resolved to
\* (legacy, modern) is looked up both ways: legacy gives modern and modern
\* gives legacy.
C1_EveryResolvedPairLooksUp ==
    InitReturnedTrue =>
        \A j \in Succeeded :
            /\ get_directwrite_family_from_gdi(GdiOf(j)) = Some(DirectWriteOf(j))
            /\ get_gdi_family_from_directwrite(DirectWriteOf(j)) = Some(GdiOf(j))

\* C1 amended: after init() returns true, both names of every resolved family
\* are found; legacy gives that family's modern name unless a later family of
\* the call resolved with the same legacy name and another modern name, and
\* modern gives its legacy name unless a later family resolved with the same
\* modern name and another legacy name.
C1_ResolvedPairLooksUpUnlessOverwritten ==
    InitReturnedTrue =>
        \A j \in Succeeded :
            /\ get_directwrite_family_from_gdi(GdiOf(j)) # None
            /\ get_gdi_family_from_directwrite(DirectWriteOf(j)) # None
            /\ (\A h \in Succeeded :
                    (h > j /\ GdiOf(h) = GdiOf(j)) => DirectWriteOf(h) = DirectWriteOf(j))
               => get_directwrite_family_from_gdi(GdiOf(j)) = Some(DirectWriteOf(j))
            /\ (\A h \in Succeeded :
                    (h > j /\ DirectWriteOf(h) = DirectWriteOf(j)) => GdiOf(h) = GdiOf(j))
               => get_gdi_family_from_directwrite(DirectWriteOf(j)) = Some(GdiOf(j))

\* Two families of one successful init() share a legacy name and differ in
\* the modern name.
C1_Witness ==
    /\ InitReturnedTrue
    /\ \E j, h \in Succeeded :
           j < h /\ GdiOf(j) = GdiOf(h) /\ DirectWriteOf(j) # DirectWriteOf(h)

\* C2: when factory creation or collection retrieval fails, init() returns
\* false, both tables are what they were when it was entered, and no family
\* was enumerated.
C2_FatalFailureLeavesTables ==
    ret = "false" =>
        /\ pc = "idle"
        /\ gdi_to_directwrite = pre_gdi_to_directwrite
        /\ directwrite_to_gdi = pre_directwrite_to_gdi
        /\ resolved = <<>>
        /\ i = 0

\* A re-invocation fails fatally over tables an earlier init() filled.
C2_Witness ==
    /\ ret = "false"
    /\ lastop.op = "init"
    /\ gdi_to_directwrite # EmptyMap
    /\ directwrite_to_gdi # EmptyMap

\* C3 as stated: an iteration that fails at any step adds no entry, the loop
\* goes on, and init() returns true having visited every index.
C3_FamilyFailureIsNonFatal ==
    /\ (last.step \notin {"-", "ok"}) =>
           (pc \in {"loop", "idle"} /\ resolved[Len(resolved)] = None)
    /\ (pc = "idle" /\ ret # "false" /\ calls > 0) =>
           (ret = "true" /\ Len(resolved) = family_count)

\* C4: after an init() that started from empty tables and returned true,
\* each key holds the name of the highest-indexed resolved family that wrote
\* it; with A = (Arial, Arial) and B = (Arial, Arial Black) the entry for
\* "Arial Black" is "Arial" and the entry for "Arial" is the modern name of
\* whichever of A and B came last.
C4_LastWriteWins ==
    (InitReturnedTrue /\ pre_gdi_to_directwrite = EmptyMap
                      /\ pre_directwrite_to_gdi = EmptyMap) =>
        /\ DOMAIN gdi_to_directwrite = WrittenGdi
        /\ DOMAIN directwrite_to_gdi = WrittenDirectWrite
        /\ \A k \in WrittenGdi :
               gdi_to_directwrite[k] = DirectWriteOf(LastWithGdi(k))
        /\ \A m \in WrittenDirectWrite :
               directwrite_to_gdi[m] = GdiOf(LastWithDirectWrite(m))
        /\ resolved = <<<<Arial, Arial>>, <<Arial, ArialBlack>>>> =>
               /\ directwrite_to_gdi[ArialBlack] = Arial
               /\ gdi_to_directwrite[Arial] = ArialBlack
        /\ resolved = <<<<Arial, ArialBlack>>, <<Arial, Arial>>>> =>
               /\ directwrite_to_gdi[ArialBlack] = Arial
               /\ gdi_to_directwrite[Arial] = Arial

\* The scenario of C4: A then B, from empty tables.
C4_Witness ==
    /\ InitReturnedTrue
    /\ pre_gdi_to_directwrite = EmptyMap
    /\ pre_directwrite_to_gdi = EmptyMap
    /\ resolved = <<<<Arial, Arial>>, <<Arial, ArialBlack>>>>

\* C5: during and after any init(), every key the tables held when it was
\* entered is still there; it holds the name of the last family of this call
\* that wrote it, and its old value when no family of this call wrote it.
C5_ReinitNeverRemoves ==
    /\ \A k \in DOMAIN pre_gdi_to_directwrite :
           /\ k \in DOMAIN gdi_to_directwrite
           /\ gdi_to_directwrite[k] =
                  IF k \in WrittenGdi THEN DirectWriteOf(LastWithGdi(k))
                  ELSE pre_gdi_to_directwrite[k]
    /\ \A m \in DOMAIN pre_directwrite_to_gdi :
           /\ m \in DOMAIN directwrite_to_gdi
           /\ directwrite_to_gdi[m] =
                  IF m \in WrittenDirectWrite THEN GdiOf(LastWithDirectWrite(m))
                  ELSE pre_directwrite_to_gdi[m]

\* A second init() returned true, left one old key untouched (its family is
\* gone) and gave another old key a new value.
C5_Witness ==
    /\ InitReturnedTrue
    /\ calls >= 2
    /\ \E k \in DOMAIN pre_gdi_to_directwrite : k \notin WrittenGdi
    /\ \E k \in DOMAIN pre_gdi_to_directwrite :
           k \in WrittenGdi /\ gdi_to_directwrite[k] # pre_gdi_to_directwrite[k]

\* C6: a step of cleanup() or of either lookup, hit or miss, changes neither
\* table, so every lookup answers after it what it answered before it.
C6_OnlyInitChangesTables ==
    [][lastop'.op # "init" =>
           /\ gdi_to_directwrite' = gdi_to_directwrite
           /\ directwrite_to_gdi' = directwrite_to_gdi
           /\ \A key \in LookupKeys :
                  /\ get_gdi_family_from_directwrite(key)'
                         = get_gdi_family_from_directwrite(key)
                  /\ get_directwrite_family_from_gdi(key)'
                         = get_directwrite_family_from_gdi(key)]_vars

\* A lookup made after cleanup() finds a name init() resolved.
C6_Witness ==
    /\ cleaned
    /\ lastop.op = "get_gdi_family_from_directwrite"
    /\ lastop.value # None
    /\ lastop.value = Some(directwrite_to_gdi[lastop.key])

\* C7: an iteration in which FindLocaleName succeeds and reports no variant
\* for the locale resolves nothing: neither table changes, the index gets no
\* entry, and the loop goes on.
C7_NoLocaleMatchResolvesNothing ==
    [][(i' = i + 1 /\ last'.no_match) =>
           /\ gdi_to_directwrite' = gdi_to_directwrite
           /\ directwrite_to_gdi' = directwrite_to_gdi
           /\ resolved' = Append(resolved, None)
           /\ pc' = "loop"]_vars

\* The locale had no variant although the family's table holds one.
C7_Witness ==
    /\ last.no_match
    /\ last.variants >= 1
    /\ resolved[Len(resolved)] = None

\* C8 as stated: when the transcode of the fetched family name fails, that
\* family alone is given up and init() is still running or has returned.
C8_TranscodeFailureSkipsFamily ==
    last.step = "to_bytes(family_name)" => pc \in {"loop", "idle"}

\* C9 as stated: between two iterations, and once init() has returned, no
\* reference acquired for a family is still held.
C9_NoFamilyHandleHeld ==
    pc \in {"loop", "idle"} => held \cap PerFamilyHandles = {}

\* C10: every value of either table is a key of the other.
C10_CrossClosed ==
    /\ \A k \in DOMAIN gdi_to_directwrite :
           gdi_to_directwrite[k] \in DOMAIN directwrite_to_gdi
    /\ \A m \in DOMAIN directwrite_to_gdi :
           directwrite_to_gdi[m] \in DOMAIN gdi_to_directwrite

\* After cleanup() the tables are filled and are not inverse to each other.
C10_Witness ==
    /\ cleaned
    /\ \E k \in DOMAIN gdi_to_directwrite :
           directwrite_to_gdi[gdi_to_directwrite[k]] # k

====
